---- MODULE Spec2Model ----
(***************************************************************************)
(* A model of src/nvidia.go: the fake-identifier codec, the whole-device   *)
(* enumeration (GpuDeviceManager.Devices) and the health monitor           *)
(* (checkHealth).  Go strings are sequences of one-character strings, so   *)
(* that Sprintf, Split, ToLower, Contains and Atoi are computed character  *)
(* by character.                                                           *)
(***************************************************************************)
EXTENDS Integers, Sequences, FiniteSets, TLC

VARIABLES
  \* ---- the codec session (generateFakeDeviceID / extractRealDeviceID)
  cpc,                  \* "idle" | "input" | "encoded" | "decoded"
  realID,               \* the real identifier handed to generateFakeDeviceID
  fakeCounter,          \* the index handed to generateFakeDeviceID
  fakeID,               \* the result of generateFakeDeviceID
  decoded,              \* the result of extractRealDeviceID
  \* ---- enumeration (GpuDeviceManager.Devices, MigDeviceManager.Devices)
  gpuMemory,            \* the package variable gpuMemory
  epc,                  \* "idle" | "returned" | "panic"
  hardware,             \* the accelerators nvml reported to the last pass
  reservedEnv,          \* the reservation environment variable seen by the last pass
  skipMigEnabledGPUs,   \* GpuDeviceManager.skipMigEnabledGPUs of the last pass
  devs,                 \* the list the last pass returned
  passes,               \* number of enumeration passes started
  memoryAtEntry,        \* gpuMemory when the last pass began
  manager,              \* "none" | "gpu" | "mig": the manager that made the last pass
  partitions,           \* what GetMigDevices returned in the last pass, per accelerator
  memoryWriters,        \* the accelerators (indices) the last pass called setGPUMemory for
  reportedAtEntry,      \* content of the unhealthy channel when the last pass began
  \* ---- the health monitor (checkHealth)
  disableHealthChecks,  \* the DP_DISABLE_HEALTHCHECKS environment variable
  devices,              \* the devices argument
  stop,                 \* TRUE once the stop channel is closed
  pc,                   \* position of checkHealth
  eventSet,             \* "none" | "open" | "closed"
  idx,                  \* position of the registration loop / of the send loop
  regResults,           \* the RegisterEventForDevice calls so far: identifier and result
  event,                \* the (e, err) pair last returned by WaitForEvent
  pending,              \* devices (indices) still to be written for the current loop
  sent,                 \* devices written in this phase: registration, or one loop iteration
  unhealthy,            \* content of the unhealthy channel
  waited,               \* TRUE once WaitForEvent has been called
  waitsAfterStop,       \* WaitForEvent calls completed since stop fired
  \* ---- the record of one run of checkHealth, kept under SpecOrder alone
  delivered,            \* the (e, err) pairs WaitForEvent has returned, in order
  written               \* the writes of the loop to the unhealthy channel, in order

codecVars == <<cpc, realID, fakeCounter, fakeID, decoded>>
enumVars == <<gpuMemory, epc, hardware, reservedEnv, skipMigEnabledGPUs, devs, passes,
              memoryAtEntry, manager, partitions, memoryWriters, reportedAtEntry>>
monVars == <<disableHealthChecks, devices, stop, pc, eventSet, idx, regResults,
             event, pending, sent, unhealthy, waited, waitsAfterStop>>
logVars == <<delivered, written>>
vars == <<codecVars, enumVars, monVars, logVars>>

(***************************************************************************)
(* Bounds of the model.                                                    *)
(***************************************************************************)
MaxIDLen == 3       \* longest real identifier drawn for the codec session
MaxIndex == 12      \* largest index drawn for the codec session
MaxPasses == 2      \* enumeration passes in one process lifetime
ChanCap == 1        \* capacity of the unhealthy channel

(***************************************************************************)
(* Go strings.                                                             *)
(***************************************************************************)
Digits == <<"0", "1", "2", "3", "4", "5", "6", "7", "8", "9">>

IsDigit(c) == \E k \in 1..10 : Digits[k] = c

DigitValue(c) == (CHOOSE k \in 1..10 : Digits[k] = c) - 1

\* fmt's %d of an unsigned value
RECURSIVE FormatUint(_)
FormatUint(n) ==
  IF n < 10 THEN <<Digits[n + 1]>>
  ELSE FormatUint(n \div 10) \o <<Digits[(n % 10) + 1]>>

\* sep occurs in s at position k
OccursAt(s, sep, k) ==
  /\ k + Len(sep) - 1 <= Len(s)
  /\ \A j \in 1..Len(sep) : s[k + j - 1] = sep[j]

\* the first position from k on at which sep occurs in s, 0 if none
RECURSIVE IndexFrom(_, _, _)
IndexFrom(s, sep, k) ==
  IF k + Len(sep) - 1 > Len(s) THEN 0
  ELSE IF OccursAt(s, sep, k) THEN k
  ELSE IndexFrom(s, sep, k + 1)

\* strings.Index: position of the first occurrence of sep in s, 0 if none
Index(s, sep) == IndexFrom(s, sep, 1)

\* strings.Contains
Contains(s, sub) == sub = <<>> \/ Index(s, sub) > 0

\* strings.HasPrefix
HasPrefix(s, p) == Len(p) <= Len(s) /\ SubSeq(s, 1, Len(p)) = p

\* the element of a one-element set; Only({e(v) : v \in {x}}) is e of the value of
\* x, x being evaluated once
Only(S) == CHOOSE r \in S : TRUE

\* strings.Split(s, sep)[0], sep not empty
SplitHead(s, sep) ==
  Only({ IF Index(t, sep) = 0 THEN t ELSE SubSeq(t, 1, Index(t, sep) - 1) : t \in {s} })

\* what follows the first occurrence of sep in s (s itself has none: <<>>)
SplitTail(s, sep) ==
  Only({ IF Index(t, sep) = 0 THEN <<>> ELSE SubSeq(t, Index(t, sep) + Len(sep), Len(t)) :
           t \in {s} })

Upper == <<"A", "L", "X", "I", "D", "S">>
Lower == <<"a", "l", "x", "i", "d", "s">>

LowerChar(c) ==
  IF \E k \in 1..Len(Upper) : Upper[k] = c
  THEN Lower[CHOOSE k \in 1..Len(Upper) : Upper[k] = c]
  ELSE c

\* strings.ToLower
ToLower(s) == [k \in 1..Len(s) |-> LowerChar(s[k])]

\* all strings over alphabet of length at most n
RECURSIVE StringsUpTo(_, _)
StringsUpTo(alphabet, n) ==
  IF n = 0 THEN {<<>>}
  ELSE LET shorter == StringsUpTo(alphabet, n - 1)
       IN shorter \cup {s \o <<c>> : s \in shorter, c \in alphabet}

(***************************************************************************)
(* The fake-identifier codec.                                              *)
(***************************************************************************)
Separator == <<"-", "_", "-">>

\* fmt.Sprintf("%s-_-%d", realID, fakeCounter)
generateFakeDeviceID(id, counter) == id \o Separator \o FormatUint(counter)

\* a decoder that cuts at the first hyphen instead of at the separator
extractAtHyphen(fake) == SplitHead(fake, <<"-">>)

\* strings.Split(fakeDeviceID, "-_-")[0]
extractRealDeviceID(fake) == SplitHead(fake, Separator)

\* Real identifiers are hardware UUID strings: letters, hexadecimal digits,
\* hyphens and (partition UUIDs) slashes; the underscore is not among them.
UUIDAlphabet == {"G", "7", "-", "/"}

RealIDs == StringsUpTo(UUIDAlphabet, MaxIDLen)

NoString == <<"?">>

CodecIdle ==
  /\ cpc = "idle" /\ realID = NoString /\ fakeCounter = 0
  /\ fakeID = NoString /\ decoded = NoString

CodecInit ==
  /\ cpc = "input"
  /\ realID \in RealIDs
  /\ fakeCounter \in 0..MaxIndex
  /\ fakeID = NoString
  /\ decoded = NoString

Encode ==
  /\ cpc = "input"
  /\ fakeID' = generateFakeDeviceID(realID, fakeCounter)
  /\ cpc' = "encoded"
  /\ UNCHANGED <<realID, fakeCounter, decoded>>

Decode ==
  /\ cpc = "encoded"
  /\ decoded' = extractRealDeviceID(fakeID)
  /\ cpc' = "decoded"
  /\ UNCHANGED <<realID, fakeCounter, fakeID>>

(***************************************************************************)
(* Enumeration in whole-device mode: GpuDeviceManager.Devices.             *)
(***************************************************************************)
\* strconv.Atoi: an optional sign and at least one digit, nothing else
RECURSIVE DecimalValue(_)
DecimalValue(s) ==
  IF s = <<>> THEN 0
  ELSE 10 * DecimalValue(SubSeq(s, 1, Len(s) - 1)) + DigitValue(s[Len(s)])

AtoiBody(s) == IF s # <<>> /\ s[1] \in {"-", "+"} THEN Tail(s) ELSE s

AtoiOk(s) == AtoiBody(s) # <<>> /\ \A k \in 1..Len(AtoiBody(s)) : IsDigit(AtoiBody(s)[k])

Atoi(s) ==
  IF s # <<>> /\ s[1] = "-" THEN 0 - DecimalValue(AtoiBody(s))
  ELSE DecimalValue(AtoiBody(s))

\* the range check with 0 let through
getReservedMemFromZero(env) ==
  IF ~AtoiOk(env) THEN [panic |-> TRUE, value |-> 0]
  ELSE IF Atoi(env) > 100 \/ Atoi(env) < 0 THEN [panic |-> TRUE, value |-> 0]
  ELSE [panic |-> FALSE, value |-> Atoi(env)]

\* getReservedMemPerGPU: the percentage, or a panic
getReservedMemPerGPU(env) ==
  IF ~AtoiOk(env) THEN [panic |-> TRUE, value |-> 0]
  ELSE IF Atoi(env) > 100 \/ Atoi(env) <= 0 THEN [panic |-> TRUE, value |-> 0]
  ELSE [panic |-> FALSE, value |-> Atoi(env)]

\* gpuMemory following the capacity of every accelerator
latchLastSeen(mem, raw) == raw

\* the value of gpuMemory after "if getGPUMemory() == 0 { setGPUMemory(raw) }"
latchGPUMemory(mem, raw) == IF mem = 0 THEN raw ELSE mem

\* the percentage taken of the whole capacity, rounded down at the end
usableRoundedLast(mem, reserve) == (mem * (100 - reserve)) \div 100

\* actual := (getGPUMemory() / 100) * (100 - reserve)
usableWhole(mem, reserve) == (mem \div 100) * (100 - reserve)

DevPrefix == <<"/", "d", "e", "v", "/", "n", "v", "i", "d", "i", "a">>

\* fmt.Sscanf(d.Path, "/dev/nvidia%d", &id) returns no error
nodePathParses(path) ==
  /\ HasPrefix(path, DevPrefix)
  /\ Len(path) > Len(DevPrefix)
  /\ IsDigit(path[Len(DevPrefix) + 1])

Healthy == "Healthy"

\* the Device values, every one with the node of /dev/nvidia0
sliceDevicesAtFirstNode(d, actual) ==
  [j \in 1..actual |->
     [ID |-> generateFakeDeviceID(d.UUID, j - 1), Health |-> Healthy,
      Path |-> DevPrefix \o <<"0">>]]

\* the Device values, unhealthy if the unhealthy channel holds a device of the
\* accelerator
sliceDevicesCarryingHealth(d, actual) ==
  [j \in 1..actual |->
     [ID |-> generateFakeDeviceID(d.UUID, j - 1),
      Health |-> IF \E k \in 1..Len(unhealthy) :
                      extractRealDeviceID(unhealthy[k].ID) = d.UUID
                 THEN "Unhealthy" ELSE Healthy,
      Path |-> d.Path]]

\* the Device values appended for one accelerator (lines 143-152)
sliceDevices(d, actual) ==
  [j \in 1..actual |->
     [ID |-> generateFakeDeviceID(d.UUID, j - 1), Health |-> Healthy, Path |-> d.Path]]

\* the accelerators setGPUMemory has been called for, after accelerator i met
\* gpuMemory = mem
latchWriters(mem, w, i) == IF mem = 0 THEN Append(w, i) ELSE w

\* The loop of GpuDeviceManager.Devices from accelerator i on, with gpuMemory = mem,
\* w the accelerators that wrote it and out the devices appended so far.  The
\* result is the final gpuMemory, its writers, the list, and whether the pass
\* ended in a panic.
RECURSIVE gpuDevicesLoop(_, _, _, _, _, _, _)
gpuDevicesLoop(hw, i, mem, w, out, skip, env) ==
  IF i > Len(hw) THEN [mem |-> mem, writers |-> w, devs |-> out, panic |-> FALSE]
  ELSE
    LET d == hw[i]
        mem1 == latchGPUMemory(mem, d.Memory)
        w1 == latchWriters(mem, w, i)
        r == getReservedMemPerGPU(env)
    IN IF d.Err = "NewDevice" \/ ~nodePathParses(d.Path)
       THEN [mem |-> mem, writers |-> w, devs |-> <<>>, panic |-> TRUE]
       ELSE IF d.Err = "IsMigEnabled"
       THEN [mem |-> mem1, writers |-> w1, devs |-> <<>>, panic |-> TRUE]
       ELSE IF d.MigEnabled /\ skip
       THEN gpuDevicesLoop(hw, i + 1, mem1, w1, out, skip, env)
       ELSE IF r.panic
       THEN [mem |-> mem1, writers |-> w1, devs |-> <<>>, panic |-> TRUE]
       ELSE gpuDevicesLoop(hw, i + 1, mem1, w1,
                           out \o sliceDevices(d, usableWhole(mem1, r.value)),
                           skip, env)

\* ---- what nvml may report
GPUPrefix == <<"G", "P", "U", "-">>

AcceleratorUUID(i) == GPUPrefix \o FormatUint(i)

NodePath(i) == DevPrefix \o FormatUint(i)

BadNodePath == <<"/", "d", "e", "v", "/", "n", "v">>

\* the descriptors nvml.NewDevice(i) may return for a working accelerator
Working(i) ==
  { [UUID |-> AcceleratorUUID(i), Path |-> NodePath(i), Memory |-> 0,
     MigEnabled |-> FALSE, Err |-> "none"],
    [UUID |-> AcceleratorUUID(i), Path |-> NodePath(i), Memory |-> 80,
     MigEnabled |-> FALSE, Err |-> "none"],
    [UUID |-> AcceleratorUUID(i), Path |-> NodePath(i), Memory |-> 100,
     MigEnabled |-> FALSE, Err |-> "none"],
    [UUID |-> AcceleratorUUID(i), Path |-> NodePath(i), Memory |-> 200,
     MigEnabled |-> TRUE, Err |-> "none"] }

\* an accelerator on which the pass fails: NewDevice or IsMigEnabled returns an
\* error, or the node path is malformed
Failing(i) ==
  { [UUID |-> AcceleratorUUID(i), Path |-> NodePath(i), Memory |-> 100,
     MigEnabled |-> FALSE, Err |-> e] : e \in {"NewDevice", "IsMigEnabled"} }
  \cup
  { [UUID |-> AcceleratorUUID(i), Path |-> BadNodePath, Memory |-> 100,
     MigEnabled |-> FALSE, Err |-> "none"] }

AcceleratorsAt(i) == Working(i) \cup Failing(i)

MaxAccelerators == 2

\* accelerator i of the machine is at index i; a pass ends at the accelerator it
\* fails on, so that one is the last it is told of
IsHardware(hw) ==
  \A i \in 1..Len(hw) :
    \/ hw[i] \in Working(i - 1)
    \/ i = Len(hw) /\ hw[i] \in Failing(i - 1)

RECURSIVE HardwareOfLength(_)
HardwareOfLength(n) ==
  IF n = 0 THEN {<<>>}
  ELSE { Append(hw, a) :
           hw \in {h \in HardwareOfLength(n - 1) : \A i \in 1..Len(h) : h[i] \in Working(i - 1)},
           a \in AcceleratorsAt(n - 1) }

HardwareConfigs == UNION { HardwareOfLength(n) : n \in 0..MaxAccelerators }

ReservedValues ==
  { <<"2", "5">>, <<"9", "8">>, <<"1", "0", "0">>,
    <<"0">>, <<"1", "0", "1">>, <<"-", "1">>, <<>>, <<"1", "x">> }

EnumIdle ==
  /\ gpuMemory = 0 /\ epc = "idle" /\ hardware = <<>> /\ reservedEnv = <<>>
  /\ skipMigEnabledGPUs = FALSE /\ devs = <<>> /\ passes = 0 /\ memoryAtEntry = 0
  /\ manager = "none" /\ partitions = <<>> /\ memoryWriters = <<>>
  /\ reportedAtEntry = <<>>

EnumInit ==
  /\ gpuMemory = 0
  /\ epc = "idle"
  /\ hardware = <<>>
  /\ reservedEnv \in ReservedValues
  /\ skipMigEnabledGPUs \in BOOLEAN
  /\ devs = <<>>
  /\ passes = 0
  /\ memoryAtEntry = 0
  /\ manager = "none"
  /\ partitions = <<>>
  /\ memoryWriters = <<>>
  /\ reportedAtEntry = <<>>

\* One call of GpuDeviceManager.Devices over the accelerators hw.
GpuDevices(hw) ==
  /\ epc \in {"idle", "returned"}
  /\ passes < MaxPasses
  /\ passes' = passes + 1
  /\ memoryAtEntry' = gpuMemory
  /\ reportedAtEntry' = unhealthy
  /\ hardware' = hw
  /\ manager' = "gpu"
  /\ partitions' = <<>>
  /\ UNCHANGED <<reservedEnv, skipMigEnabledGPUs>>
  /\ \E res \in {gpuDevicesLoop(hw, 1, gpuMemory, <<>>, <<>>, skipMigEnabledGPUs,
                                 reservedEnv)} :
       /\ gpuMemory' = res.mem
       /\ memoryWriters' = res.writers
       /\ devs' = res.devs
       /\ epc' = IF res.panic THEN "panic" ELSE "returned"

\* lines 114-115: nvml.GetDeviceCount fails and check panics
GpuDevicesCountFails ==
  /\ epc \in {"idle", "returned"}
  /\ passes < MaxPasses
  /\ passes' = passes + 1
  /\ memoryAtEntry' = gpuMemory
  /\ reportedAtEntry' = unhealthy
  /\ hardware' = <<>>
  /\ devs' = <<>>
  /\ epc' = "panic"
  /\ manager' = "gpu"
  /\ partitions' = <<>>
  /\ memoryWriters' = <<>>
  /\ UNCHANGED <<gpuMemory, reservedEnv, skipMigEnabledGPUs>>

GpuDevicesPass ==
  /\ epc \in {"idle", "returned"}
  /\ passes < MaxPasses
  /\ \E hw \in HardwareConfigs : GpuDevices(hw)

(***************************************************************************)
(* Partitioned mode: MigDeviceManager.Devices.                             *)
(*                                                                         *)
(* A partition is what GetMigDevices returns for it together with the      *)
(* answer m.strategy.MatchesResource(mig, m.resource) gives for the        *)
(* manager's resource.                                                     *)
(***************************************************************************)
\* m.strategy.MatchesResource(mig, m.resource)
MatchesResource(mig) == mig.Matches

\* actual := getGPUMemory() * (1 - (getReservedMemPerGPU() / 100)), on uint
usablePartitioned(mem, reserve) == mem * (1 - (reserve \div 100))

\* every partition of the accelerator taken as matching
migSlicesUnfiltered(d, migs, actual) ==
  IF migs = <<>> \/ actual = 0 THEN <<>>
  ELSE [k \in 1..(Len(migs) * actual) |-> sliceDevices(d, actual)[((k - 1) % actual) + 1]]

\* the Device values appended for the partitions migs of accelerator d (lines 191-205)
RECURSIVE migSlices(_, _, _)
migSlices(d, migs, actual) ==
  IF migs = <<>> THEN <<>>
  ELSE (IF MatchesResource(Head(migs)) THEN sliceDevices(d, actual) ELSE <<>>)
         \o migSlices(d, Tail(migs), actual)

\* The loop of MigDeviceManager.Devices from accelerator i on; parts[i] is what
\* GetMigDevices returns for accelerator i.
RECURSIVE migDevicesLoop(_, _, _, _, _, _, _)
migDevicesLoop(hw, parts, i, mem, w, out, env) ==
  IF i > Len(hw) THEN [mem |-> mem, writers |-> w, devs |-> out, panic |-> FALSE]
  ELSE
    LET d == hw[i]
        mem1 == latchGPUMemory(mem, d.Memory)
        w1 == latchWriters(mem, w, i)
        r == getReservedMemPerGPU(env)
    IN IF d.Err = "NewDevice" \/ ~nodePathParses(d.Path)
       THEN [mem |-> mem, writers |-> w, devs |-> <<>>, panic |-> TRUE]
       ELSE IF d.Err = "IsMigEnabled"
       THEN [mem |-> mem1, writers |-> w1, devs |-> <<>>, panic |-> TRUE]
       ELSE IF ~d.MigEnabled
       THEN migDevicesLoop(hw, parts, i + 1, mem1, w1, out, env)
       ELSE IF d.Err = "GetMigDevices" \/ r.panic
       THEN [mem |-> mem1, writers |-> w1, devs |-> <<>>, panic |-> TRUE]
       ELSE migDevicesLoop(hw, parts, i + 1, mem1, w1,
                           out \o migSlices(d, parts[i], usablePartitioned(mem1, r.value)),
                           env)

\* ---- the machines both managers are run on
\* the descriptors nvml.NewDevice(i) may return for a working accelerator
Installed(i) ==
  { [UUID |-> AcceleratorUUID(i), Path |-> NodePath(i), Memory |-> 0,
     MigEnabled |-> FALSE, Err |-> "none"],
    [UUID |-> AcceleratorUUID(i), Path |-> NodePath(i), Memory |-> 100,
     MigEnabled |-> FALSE, Err |-> "none"],
    [UUID |-> AcceleratorUUID(i), Path |-> NodePath(i), Memory |-> 100,
     MigEnabled |-> TRUE, Err |-> "none"] }

\* an accelerator on which a pass fails
Broken(i) ==
  { [UUID |-> AcceleratorUUID(i), Path |-> NodePath(i), Memory |-> 100,
     MigEnabled |-> TRUE, Err |-> e] : e \in {"NewDevice", "GetMigDevices"} }

RECURSIVE InstalledOfLength(_)
InstalledOfLength(n) ==
  IF n = 0 THEN {<<>>}
  ELSE { Append(hw, a) : hw \in InstalledOfLength(n - 1), a \in Installed(n - 1) }

\* a pass ends at the accelerator it fails on, so that one is the last it is told of
MachineConfigs ==
  UNION { InstalledOfLength(n) : n \in 0..MaxAccelerators }
  \cup
  UNION { { Append(hw, a) : hw \in InstalledOfLength(n - 1), a \in Broken(n - 1) } :
            n \in 1..MaxAccelerators }

\* what GetMigDevices may return for a partition-enabled accelerator
PartitionLists ==
  { <<[GI |-> 1, Matches |-> FALSE], [GI |-> 2, Matches |-> TRUE]>>,
    <<[GI |-> 1, Matches |-> TRUE], [GI |-> 2, Matches |-> TRUE]>> }

\* GetMigDevices is called for the partition-enabled accelerators alone
RECURSIVE PartitionReports(_)
PartitionReports(hw) ==
  IF hw = <<>> THEN {<<>>}
  ELSE LET d == hw[Len(hw)]
           own == IF d.MigEnabled /\ d.Err = "none" THEN PartitionLists ELSE {<<>>}
       IN { Append(ps, p) : ps \in PartitionReports(SubSeq(hw, 1, Len(hw) - 1)), p \in own }

ManagedReservedValues == { <<"9", "8">>, <<"1", "0", "0">>, <<"0">>, <<"1", "x">> }

ManagersInit ==
  /\ gpuMemory = 0
  /\ epc = "idle"
  /\ hardware = <<>>
  /\ reservedEnv \in ManagedReservedValues
  /\ skipMigEnabledGPUs \in BOOLEAN
  /\ devs = <<>>
  /\ passes = 0
  /\ memoryAtEntry = 0
  /\ manager = "none"
  /\ partitions = <<>>
  /\ memoryWriters = <<>>
  /\ reportedAtEntry = <<>>

\* One call of MigDeviceManager.Devices over the accelerators hw with the
\* partitions parts.
MigDevices(hw, parts) ==
  /\ epc \in {"idle", "returned"}
  /\ passes < MaxPasses
  /\ passes' = passes + 1
  /\ memoryAtEntry' = gpuMemory
  /\ reportedAtEntry' = unhealthy
  /\ hardware' = hw
  /\ manager' = "mig"
  /\ partitions' = parts
  /\ UNCHANGED <<reservedEnv, skipMigEnabledGPUs>>
  /\ \E res \in {migDevicesLoop(hw, parts, 1, gpuMemory, <<>>, <<>>, reservedEnv)} :
       /\ gpuMemory' = res.mem
       /\ memoryWriters' = res.writers
       /\ devs' = res.devs
       /\ epc' = IF res.panic THEN "panic" ELSE "returned"

\* lines 161-162: nvml.GetDeviceCount fails and check panics
MigDevicesCountFails ==
  /\ epc \in {"idle", "returned"}
  /\ passes < MaxPasses
  /\ passes' = passes + 1
  /\ memoryAtEntry' = gpuMemory
  /\ reportedAtEntry' = unhealthy
  /\ hardware' = <<>>
  /\ devs' = <<>>
  /\ epc' = "panic"
  /\ manager' = "mig"
  /\ partitions' = <<>>
  /\ memoryWriters' = <<>>
  /\ UNCHANGED <<gpuMemory, reservedEnv, skipMigEnabledGPUs>>

MigDevicesPass ==
  /\ epc \in {"idle", "returned"}
  /\ passes < MaxPasses
  /\ \E hw \in MachineConfigs : \E parts \in PartitionReports(hw) : MigDevices(hw, parts)

\* GpuDeviceManager.Devices on the same machines
GpuDevicesOnMachine ==
  /\ epc \in {"idle", "returned"}
  /\ passes < MaxPasses
  /\ \E hw \in MachineConfigs : GpuDevices(hw)

(***************************************************************************)
(* The health monitor: checkHealth.                                        *)
(***************************************************************************)
XidCriticalError == 8      \* nvml.XidCriticalError, the event class registered for

\* 0xFFFFFFFF, the 32-bit all-ones value of lines 301-302, written as its
\* two's-complement reading
AllOnes == -1

Nil == <<"nil">>           \* a nil *string

All == <<"a", "l", "l">>
allHealthChecks == <<"x", "i", "d", "s">>

\* the directive as read without the mapping of "all"
disabledWithoutAll(env) == Contains(ToLower(env), allHealthChecks)

\* lines 239-245: checkHealth returns at once
healthChecksDisabled(env) ==
  LET lowered == ToLower(env)
      directive == IF lowered = All THEN allHealthChecks ELSE lowered
  IN Contains(directive, <<"x", "i", "d", "s">>)

MIG == <<"M", "I", "G">>

\* nvml.ParseMigDeviceUUID, the tokens being cut: mig is "MIG-" rest, rest is
\* <GPU UUID> "/" giCi, and tokens are the GPU UUID and the two instance identifiers
migFields(mig, rest, giCi, tokens) ==
  Only({ IF /\ Index(mig, <<"-">>) > 0
            /\ SplitHead(mig, <<"-">>) = MIG
            /\ Index(rest, <<"/">>) > 0
            /\ Index(giCi, <<"/">>) > 0
            /\ HasPrefix(t[1], GPUPrefix)
            /\ AtoiOk(t[2])
            /\ AtoiOk(t[3])
         THEN [err |-> FALSE, gpu |-> t[1], gi |-> Atoi(t[2]), ci |-> Atoi(t[3])]
         ELSE [err |-> TRUE, gpu |-> <<>>, gi |-> 0, ci |-> 0] : t \in {tokens} })

migInstances(mig, rest, afterGPU) ==
  Only({ migFields(mig, rest, giCi,
                   <<SplitHead(rest, <<"/">>), SplitHead(giCi, <<"/">>),
                     SplitTail(giCi, <<"/">>)>>) : giCi \in {afterGPU} })

migRest(mig, afterMIG) ==
  Only({ migInstances(mig, rest, SplitTail(rest, <<"/">>)) : rest \in {afterMIG} })

\* nvml.ParseMigDeviceUUID: "MIG-" <GPU UUID> "/" <gi> "/" <ci>
ParseMigDeviceUUID(id) == Only({ migRest(mig, SplitTail(mig, <<"-">>)) : mig \in {id} })

\* lines 253-255
gpuOrID(id, parsed) == Only({ IF p.err THEN id ELSE p.gpu : p \in {parsed} })

\* lines 251-255: the identifier a device is registered under
registeredGPU(d) ==
  Only({ gpuOrID(id, ParseMigDeviceUUID(id)) : id \in {extractRealDeviceID(d.ID)} })

\* lines 299-303
identityOrWhole(id, parsed) ==
  Only({ IF p.err THEN [gpu |-> id, gi |-> AllOnes, ci |-> AllOnes]
         ELSE [gpu |-> p.gpu, gi |-> p.gi, ci |-> p.ci] : p \in {parsed} })

\* lines 295-303: the (gpu, gi, ci) a device is compared under
deviceIdentity(d) ==
  Only({ identityOrWhole(id, ParseMigDeviceUUID(id)) : id \in {extractRealDeviceID(d.ID)} })

\* a comparison that takes the two instance identifiers of a whole device as wildcards
matchesOnGPUAlone(d, e) == deviceIdentity(d).gpu = e.UUID

\* line 305
matchesEvent(d, e) ==
  \E own \in {deviceIdentity(d)} :
    /\ own.gpu = e.UUID
    /\ own.gi = e.GpuInstanceId
    /\ own.ci = e.ComputeInstanceId

\* an application-error list that lacks 45
isApplicationErrorShort(code) == code = 31 \/ code = 43

\* line 281
isApplicationError(code) == code = 31 \/ code = 43 \/ code = 45

\* line 274: the event is dropped before it is looked at
skippedAsNotCritical(e) == e.err /\ e.Etype # XidCriticalError

\* a test that takes only the nil identifier for "no identifier"
isFleetWideNilOnly(e) == e.UUID = Nil

\* line 285
isFleetWide(e) == e.UUID = Nil \/ Len(e.UUID) = 0

RECURSIVE Indices(_)
Indices(n) == IF n = 0 THEN <<>> ELSE Append(Indices(n - 1), n)

\* the devices of a fleet-wide event taken from the end of the list
affectedFromLast(ds, e) ==
  IF skippedAsNotCritical(e) THEN <<>>
  ELSE IF isApplicationError(e.Edata) THEN <<>>
  ELSE IF isFleetWide(e) THEN [k \in 1..Len(ds) |-> Len(ds) + 1 - k]
  ELSE SelectSeq(Indices(Len(ds)), LAMBDA i : matchesEvent(ds[i], e))

\* lines 274-309: the positions in ds of the devices written for (e, err), in order
affected(ds, e) ==
  IF skippedAsNotCritical(e) THEN <<>>
  ELSE IF isApplicationError(e.Edata) THEN <<>>
  ELSE IF isFleetWide(e) THEN Indices(Len(ds))
  ELSE SelectSeq(Indices(Len(ds)), LAMBDA i : matchesEvent(ds[i], e))

NotSupported == <<"N", "o", "t", " ", "S", "u", "p", "p", "o", "r", "t", "e", "d">>
UnknownError == <<"U", "n", "k", "n", "o", "w", "n", " ", "E", "r", "r", "o", "r">>

\* strings.HasSuffix
HasSuffix(s, p) == Len(p) <= Len(s) /\ SubSeq(s, Len(s) - Len(p) + 1, Len(s)) = p

\* a registration that takes every failure for the not-supported one
registrationOutcomeLenient(err) == IF err = Nil THEN "ok" ELSE "unhealthy"

\* lines 257-263: what a RegisterEventForDevice result leads to
registrationOutcome(err) ==
  IF err # Nil /\ HasSuffix(err, NotSupported) THEN "unhealthy"
  ELSE IF err # Nil THEN "fatal"
  ELSE "ok"

\* an exit that skips the deferred call
eventSetLeftOpen(kind) == IF kind = "panic" THEN "open" ELSE "closed"

\* line 248: defer nvml.DeleteEventSet(eventSet) runs on return and on panic
eventSetAfterExit(kind) == "closed"

\* ---- the inputs of checkHealth
Directives ==
  { <<>>, <<"a", "l", "l">>, <<"A", "L", "L">>, <<"A", "l", "l">>,
    <<"x", "i", "d", "s">>, <<"X", "I", "D", "S">>, <<"x", "I", "d", "s">>,
    <<"x", "i", "d">>, <<"a", "l">> }

GpuX == AcceleratorUUID(0)
GpuY == AcceleratorUUID(1)
MigOfX == MIG \o <<"-">> \o GpuX \o <<"/", "1", "/", "0">>

VirtualDevice(id, j, node) ==
  [ID |-> generateFakeDeviceID(id, j), Health |-> Healthy, Path |-> NodePath(node)]

MonitoredSets ==
  { <<>>,
    <<VirtualDevice(GpuX, 0, 0)>>,
    <<VirtualDevice(GpuX, 0, 0), VirtualDevice(GpuX, 1, 0), VirtualDevice(GpuY, 0, 1)>>,
    <<VirtualDevice(MigOfX, 0, 0), VirtualDevice(GpuY, 0, 1), VirtualDevice(GpuX, 0, 0)>> }

RegisterErrors == {Nil, NotSupported, UnknownError}

NoEvent == [Etype |-> 0, Edata |-> 0, UUID |-> Nil, GpuInstanceId |-> 0,
            ComputeInstanceId |-> 0, err |-> FALSE, none |-> TRUE]

\* the wait timed out: the zero Event and an error
Timeout == [Etype |-> 0, Edata |-> 0, UUID |-> Nil, GpuInstanceId |-> 0,
            ComputeInstanceId |-> 0, err |-> TRUE, none |-> FALSE]

InstanceIds == {<<AllOnes, AllOnes>>, <<1, AllOnes>>, <<1, 0>>}

Delivered ==
  { [Etype |-> t, Edata |-> c, UUID |-> u, GpuInstanceId |-> g[1],
     ComputeInstanceId |-> g[2], err |-> x, none |-> FALSE] :
      t \in {1, XidCriticalError}, c \in {31, 43, 45, 48},
      u \in {Nil, <<>>, GpuX, GpuY}, g \in InstanceIds, x \in BOOLEAN }

WaitResults == {Timeout} \cup Delivered

MonIdle ==
  /\ disableHealthChecks = <<>> /\ devices = <<>> /\ stop = FALSE /\ pc = "idle"
  /\ eventSet = "none" /\ idx = 0 /\ regResults = <<>> /\ event = NoEvent
  /\ pending = <<>> /\ sent = <<>> /\ unhealthy = <<>> /\ waited = FALSE
  /\ waitsAfterStop = 0

MonInit ==
  /\ disableHealthChecks \in Directives
  /\ devices \in MonitoredSets
  /\ stop = FALSE
  /\ pc = "start"
  /\ eventSet = "none"
  /\ idx = 0
  /\ regResults = <<>>
  /\ event = NoEvent
  /\ pending = <<>>
  /\ sent = <<>>
  /\ unhealthy = <<>>
  /\ waited = FALSE
  /\ waitsAfterStop = 0

\* checkHealth returning once the registration loop is over
afterRegistrationReturns(i) == IF i > Len(devices) THEN "done" ELSE "register"

\* where the registration loop goes once position i is reached
afterRegistration(i) == IF i > Len(devices) THEN "loop" ELSE "register"

\* lines 238-248
Start ==
  /\ pc = "start"
  /\ IF healthChecksDisabled(disableHealthChecks)
     THEN /\ pc' = "done"
          /\ UNCHANGED <<eventSet, idx>>
     ELSE /\ eventSet' = "open"
          /\ idx' = 1
          /\ pc' = afterRegistration(1)
  /\ UNCHANGED <<disableHealthChecks, devices, stop, regResults, event, pending,
                 sent, unhealthy, waited, waitsAfterStop>>

\* lines 250-264, one device: RegisterEventForDevice returns err
Register(err) ==
  /\ pc = "register"
  /\ regResults' = Append(regResults, [gpu |-> registeredGPU(devices[idx]), err |-> err])
  /\ CASE registrationOutcome(err) = "ok" ->
            /\ idx' = idx + 1
            /\ pc' = afterRegistration(idx + 1)
            /\ UNCHANGED eventSet
       [] registrationOutcome(err) = "unhealthy" ->
            /\ pc' = "regsend"
            /\ UNCHANGED <<idx, eventSet>>
       [] OTHER ->
            /\ pc' = "panic"
            /\ eventSet' = eventSetAfterExit("panic")
            /\ UNCHANGED idx
  /\ UNCHANGED <<disableHealthChecks, devices, stop, event, pending, sent,
                 unhealthy, waited, waitsAfterStop>>

\* the device marked unhealthy in place as it is written
devicesMarked(ds, i) == [ds EXCEPT ![i].Health = "Unhealthy"]

\* the devices argument after "unhealthy <- d" for d = ds[i]: the pointer is sent,
\* the Device it points to is not assigned to
devicesAfterWrite(ds, i) == ds

\* line 260: unhealthy <- d, which waits for room in the channel
RegSend ==
  /\ pc = "regsend"
  /\ Len(unhealthy) < ChanCap
  /\ unhealthy' = Append(unhealthy, devices[idx])
  /\ sent' = Append(sent, devices[idx])
  /\ devices' = devicesAfterWrite(devices, idx)
  /\ idx' = idx + 1
  /\ pc' = afterRegistration(idx + 1)
  /\ UNCHANGED <<disableHealthChecks, stop, eventSet, regResults, event,
                 pending, waited, waitsAfterStop>>

\* lines 266-271: a new iteration; e and err of the last one are out of scope
CheckStop ==
  /\ pc = "loop"
  /\ IF stop
     THEN /\ pc' = "done"
          /\ eventSet' = eventSetAfterExit("return")
     ELSE /\ pc' = "wait"
          /\ UNCHANGED eventSet
  /\ event' = NoEvent
  /\ sent' = <<>>
  /\ UNCHANGED <<disableHealthChecks, devices, stop, idx, regResults,
                 pending, unhealthy, waited, waitsAfterStop>>

\* lines 273-309 up to the first write: WaitForEvent returns e
WaitForEvent(e) ==
  /\ pc = "wait"
  /\ event' = e
  /\ waited' = TRUE
  /\ waitsAfterStop' = IF stop THEN waitsAfterStop + 1 ELSE waitsAfterStop
  /\ sent' = <<>>
  /\ \E ds \in {affected(devices, e)} :
       /\ pending' = ds
       /\ pc' = IF ds = <<>> THEN "loop" ELSE "send"
  /\ UNCHANGED <<disableHealthChecks, devices, stop, eventSet, idx, regResults,
                 unhealthy>>

\* lines 289 and 307: unhealthy <- d, which waits for room in the channel
Send ==
  /\ pc = "send"
  /\ Len(unhealthy) < ChanCap
  /\ unhealthy' = Append(unhealthy, devices[Head(pending)])
  /\ sent' = Append(sent, devices[Head(pending)])
  /\ devices' = devicesAfterWrite(devices, Head(pending))
  /\ pending' = Tail(pending)
  /\ pc' = IF Tail(pending) = <<>> THEN "loop" ELSE "send"
  /\ UNCHANGED <<disableHealthChecks, stop, eventSet, idx, regResults,
                 event, waited, waitsAfterStop>>

\* the reader of the unhealthy channel takes a device
Receive ==
  /\ unhealthy # <<>>
  /\ unhealthy' = Tail(unhealthy)
  /\ UNCHANGED <<disableHealthChecks, devices, stop, pc, eventSet, idx, regResults,
                 event, pending, sent, waited, waitsAfterStop>>

\* the caller closes the stop channel
Stop ==
  /\ ~stop
  /\ pc # "idle"
  /\ stop' = TRUE
  /\ UNCHANGED <<disableHealthChecks, devices, pc, eventSet, idx, regResults,
                 event, pending, sent, unhealthy, waited, waitsAfterStop>>

RegisterStep == \E err \in RegisterErrors : Register(err)

WaitStep == \E e \in WaitResults : WaitForEvent(e)

(***************************************************************************)
(* The specifications.                                                     *)
(***************************************************************************)
LogIdle == delivered = <<>> /\ written = <<>>

Init == MonInit /\ CodecIdle /\ EnumIdle /\ LogIdle

Next ==
  \/ Start /\ UNCHANGED <<codecVars, enumVars, logVars>>
  \/ RegisterStep /\ UNCHANGED <<codecVars, enumVars, logVars>>
  \/ RegSend /\ UNCHANGED <<codecVars, enumVars, logVars>>
  \/ CheckStop /\ UNCHANGED <<codecVars, enumVars, logVars>>
  \/ WaitStep /\ UNCHANGED <<codecVars, enumVars, logVars>>
  \/ Send /\ UNCHANGED <<codecVars, enumVars, logVars>>
  \/ Receive /\ UNCHANGED <<codecVars, enumVars, logVars>>
  \/ Stop /\ UNCHANGED <<codecVars, enumVars, logVars>>

Spec == Init /\ [][Next]_vars

\* checkHealth runs in a goroutine of its own: a step it can take is taken, and
\* WaitForEvent returns within its timeout.  Nothing obliges the reader of the
\* unhealthy channel to receive, nor the caller to stop.
MonitorStep ==
  (Start \/ RegisterStep \/ RegSend \/ CheckStop \/ WaitStep \/ Send)
    /\ UNCHANGED <<codecVars, enumVars, logVars>>

FairSpec == Spec /\ WF_vars(MonitorStep)

InitCodec == CodecInit /\ EnumIdle /\ MonIdle /\ LogIdle

NextCodec ==
  \/ Encode /\ UNCHANGED <<enumVars, monVars, logVars>>
  \/ Decode /\ UNCHANGED <<enumVars, monVars, logVars>>

SpecCodec == InitCodec /\ [][NextCodec]_vars

InitEnum == EnumInit /\ CodecIdle /\ MonIdle /\ LogIdle

NextEnum ==
  \/ GpuDevicesPass /\ UNCHANGED <<codecVars, monVars, logVars>>
  \/ GpuDevicesCountFails /\ UNCHANGED <<codecVars, monVars, logVars>>

SpecEnum == InitEnum /\ [][NextEnum]_vars

InitManagers == ManagersInit /\ CodecIdle /\ MonIdle /\ LogIdle

NextManagers ==
  \/ GpuDevicesOnMachine /\ UNCHANGED <<codecVars, monVars, logVars>>
  \/ GpuDevicesCountFails /\ UNCHANGED <<codecVars, monVars, logVars>>
  \/ MigDevicesPass /\ UNCHANGED <<codecVars, monVars, logVars>>
  \/ MigDevicesCountFails /\ UNCHANGED <<codecVars, monVars, logVars>>

SpecManagers == InitManagers /\ [][NextManagers]_vars

(***************************************************************************)
(* A serving plugin: the list a pass returns is handed to checkHealth,     *)
(* which runs while further passes are made.                               *)
(***************************************************************************)
\* the machines of a serving plugin: one accelerator, without partitioning and of
\* capacity 100, or partition-enabled and of capacity 2
ServedMachines ==
  { <<[UUID |-> AcceleratorUUID(0), Path |-> NodePath(0), Memory |-> 100,
       MigEnabled |-> FALSE, Err |-> "none"]>>,
    <<[UUID |-> AcceleratorUUID(0), Path |-> NodePath(0), Memory |-> 2,
       MigEnabled |-> TRUE, Err |-> "none"]>> }

\* a timeout, and a critical error on the whole of accelerator 0
ServedEvents ==
  { Timeout,
    [Etype |-> XidCriticalError, Edata |-> 48, UUID |-> GpuX, GpuInstanceId |-> AllOnes,
     ComputeInstanceId |-> AllOnes, err |-> FALSE, none |-> FALSE] }

ServingInit ==
  /\ ManagersInit
  /\ reservedEnv = <<"9", "8">>
  /\ ~skipMigEnabledGPUs

\* the machine stays the one the first pass met
SameMachine(hw) == passes = 0 \/ hw = hardware

ServeGpuDevices ==
  /\ epc \in {"idle", "returned"}
  /\ passes < MaxPasses
  /\ \E hw \in ServedMachines : SameMachine(hw) /\ GpuDevices(hw)

ServeMigDevices ==
  /\ epc \in {"idle", "returned"}
  /\ passes < MaxPasses
  /\ \E hw \in ServedMachines :
       /\ SameMachine(hw)
       /\ \E parts \in PartitionReports(hw) : MigDevices(hw, parts)

\* checkHealth is started on the list the last pass returned
CheckHealthCall ==
  /\ pc = "idle"
  /\ epc = "returned"
  /\ devs # <<>>
  /\ devices' = devs
  /\ pc' = "start"
  /\ UNCHANGED <<disableHealthChecks, stop, eventSet, idx, regResults, event, pending,
                 sent, unhealthy, waited, waitsAfterStop>>

ServedRegister == Register(Nil)

ServedWait == \E e \in ServedEvents : WaitForEvent(e)

InitServing == ServingInit /\ CodecIdle /\ MonIdle /\ LogIdle

NextServing ==
  \/ ServeGpuDevices /\ UNCHANGED <<codecVars, monVars, logVars>>
  \/ ServeMigDevices /\ UNCHANGED <<codecVars, monVars, logVars>>
  \/ CheckHealthCall /\ UNCHANGED <<codecVars, enumVars, logVars>>
  \/ Start /\ UNCHANGED <<codecVars, enumVars, logVars>>
  \/ ServedRegister /\ UNCHANGED <<codecVars, enumVars, logVars>>
  \/ CheckStop /\ UNCHANGED <<codecVars, enumVars, logVars>>
  \/ ServedWait /\ UNCHANGED <<codecVars, enumVars, logVars>>
  \/ Send /\ UNCHANGED <<codecVars, enumVars, logVars>>
  \/ Receive /\ UNCHANGED <<codecVars, enumVars, logVars>>
  \/ Stop /\ UNCHANGED <<codecVars, enumVars, logVars>>

SpecServing == InitServing /\ [][NextServing]_vars

(***************************************************************************)
(* One run of checkHealth with its deliveries and writes recorded.         *)
(***************************************************************************)
MaxEvents == 3

\* a timeout, a critical error without an identifier, an application error, and a
\* critical error on the whole of each accelerator
OrderedEvents ==
  { Timeout }
  \cup
  { [Etype |-> XidCriticalError, Edata |-> c, UUID |-> u, GpuInstanceId |-> AllOnes,
     ComputeInstanceId |-> AllOnes, err |-> FALSE, none |-> FALSE] :
      c \in {48}, u \in {Nil, GpuX, GpuY} }
  \cup
  { [Etype |-> XidCriticalError, Edata |-> 31, UUID |-> GpuX, GpuInstanceId |-> AllOnes,
     ComputeInstanceId |-> AllOnes, err |-> FALSE, none |-> FALSE] }

OrderInit ==
  /\ MonInit
  /\ disableHealthChecks = <<>>
  /\ delivered = <<>>
  /\ written = <<>>

OrderedRegister == Register(Nil) /\ UNCHANGED logVars

\* WaitForEvent returns e: the delivery is recorded
OrderedWait ==
  /\ Len(delivered) < MaxEvents
  /\ \E e \in OrderedEvents :
       /\ WaitForEvent(e)
       /\ delivered' = Append(delivered, e)
  /\ UNCHANGED written

\* unhealthy <- d: the value put into the channel is recorded with the delivery
\* it is written for
OrderedSend ==
  /\ Send
  /\ written' = Append(written, [event |-> Len(delivered),
                                 device |-> unhealthy'[Len(unhealthy')]])
  /\ UNCHANGED delivered

InitOrder == OrderInit /\ CodecIdle /\ EnumIdle

NextOrder ==
  \/ Start /\ UNCHANGED <<codecVars, enumVars, logVars>>
  \/ OrderedRegister /\ UNCHANGED <<codecVars, enumVars>>
  \/ CheckStop /\ UNCHANGED <<codecVars, enumVars, logVars>>
  \/ OrderedWait /\ UNCHANGED <<codecVars, enumVars>>
  \/ OrderedSend /\ UNCHANGED <<codecVars, enumVars>>
  \/ Receive /\ UNCHANGED <<codecVars, enumVars, logVars>>
  \/ Stop /\ UNCHANGED <<codecVars, enumVars, logVars>>

SpecOrder == InitOrder /\ [][NextOrder]_vars

(***************************************************************************)
(* The health monitor: properties under Spec and FairSpec.                 *)
(*                                                                         *)
(* event is the (e, err) pair of the current loop iteration and sent the   *)
(* devices written to the unhealthy channel in it; at pc = "loop" the      *)
(* iteration is over.                                                      *)
(***************************************************************************)
Exited == pc \in {"done", "panic"}

\* the devices still to be written in this iteration
PendingDevices == [k \in 1..Len(pending) |-> devices[pending[k]]]

ApplicationCodes == {31, 43, 45}

CriticalFault(e) ==
  ~e.none /\ e.Etype = XidCriticalError /\ e.Edata \notin ApplicationCodes

\* C1: a critical fault event with no (nil) or an empty originating identifier has
\* every device of the monitored set written to the unhealthy channel exactly once,
\* in the order of the set.
C1_FleetWideOnce ==
  (CriticalFault(event) /\ (event.UUID = Nil \/ event.UUID = <<>>)) =>
    /\ sent \o PendingDevices = devices
    /\ pc = "loop" => sent = devices

\* the iteration of such an event with an empty identifier is over, three devices written
C1_Witness ==
  /\ CriticalFault(event)
  /\ event.UUID = <<>>
  /\ event.Edata = 48
  /\ pc = "loop"
  /\ Len(devices) = 3
  /\ sent = devices

IsPartitionDevice(d) == ~ParseMigDeviceUUID(extractRealDeviceID(d.ID)).err

OwnerGPU(d) ==
  IF IsPartitionDevice(d) THEN ParseMigDeviceUUID(extractRealDeviceID(d.ID)).gpu
  ELSE extractRealDeviceID(d.ID)

Targeted(e) == CriticalFault(e) /\ e.UUID # Nil /\ e.UUID # <<>>

\* the event names the accelerator and the two instances of d; a device that is not a
\* partition has both instances 0xFFFFFFFF
NamesDevice(e, d) ==
  /\ OwnerGPU(d) = e.UUID
  /\ IF IsPartitionDevice(d)
     THEN /\ ParseMigDeviceUUID(extractRealDeviceID(d.ID)).gi = e.GpuInstanceId
          /\ ParseMigDeviceUUID(extractRealDeviceID(d.ID)).ci = e.ComputeInstanceId
     ELSE e.GpuInstanceId = AllOnes /\ e.ComputeInstanceId = AllOnes

\* C2 (as amended): for a critical fault event whose originating identifier is the
\* real identifier of accelerator X, checkHealth writes exactly the monitored devices
\* of X whose two instance identifiers equal the event's, a device that is not a
\* partition counting as instance 0xFFFFFFFF/0xFFFFFFFF; no device of another
\* accelerator is written.
C2_MatchOnTriple ==
  Targeted(event) =>
    /\ sent \o PendingDevices = SelectSeq(devices, LAMBDA d : NamesDevice(event, d))
    /\ pc = "loop" => pending = <<>>
    /\ \A k \in 1..Len(sent) : OwnerGPU(sent[k]) = event.UUID

\* an event on accelerator X as a whole: the two slices of X written, the slice of Y not
C2_Witness ==
  /\ Targeted(event)
  /\ event.UUID = GpuX
  /\ event.GpuInstanceId = AllOnes /\ event.ComputeInstanceId = AllOnes
  /\ pc = "loop"
  /\ devices = <<VirtualDevice(GpuX, 0, 0), VirtualDevice(GpuX, 1, 0), VirtualDevice(GpuY, 0, 1)>>
  /\ sent = <<VirtualDevice(GpuX, 0, 0), VirtualDevice(GpuX, 1, 0)>>

\* C2 as stated: every monitored device that decodes to X is written whatever instance
\* identifiers the event carries, and no device of another accelerator is.
C2_MatchOnRealIDAlone ==
  (Targeted(event) /\ pc = "loop") =>
    /\ \A i \in 1..Len(devices) :
         extractRealDeviceID(devices[i].ID) = event.UUID =>
           \E k \in 1..Len(sent) : sent[k] = devices[i]
    /\ \A k \in 1..Len(sent) : OwnerGPU(sent[k]) = event.UUID

\* C3: an event whose code is 31, 43 or 45 causes no write to the unhealthy channel,
\* whatever its class, its identifier and the error WaitForEvent returned.
C3_ApplicationCodesSilent ==
  (~event.none /\ event.Edata \in ApplicationCodes) =>
    sent = <<>> /\ pending = <<>> /\ pc = "loop"

\* a critical event of code 45 on accelerator X, returned without error, and over
C3_Witness ==
  /\ ~event.none
  /\ event.Etype = XidCriticalError
  /\ event.Edata = 45
  /\ ~event.err
  /\ event.UUID = GpuX
  /\ event.GpuInstanceId = AllOnes /\ event.ComputeInstanceId = AllOnes
  /\ Len(devices) = 3
  /\ pc = "loop"
  /\ sent = <<>>

\* C4 as stated: an event that is not of the critical-error class causes no write to
\* the unhealthy channel, with or without an error from WaitForEvent.
C4_NonCriticalIgnored ==
  (~event.none /\ event.Etype # XidCriticalError) => sent = <<>> /\ pending = <<>>

\* C5 as stated: once the stop signal has fired checkHealth eventually returns, having
\* completed at most one further WaitForEvent call.
C5_StopLeadsToReturn == [](waitsAfterStop <= 1) /\ (stop ~> Exited)

\* C6: checkHealth has never exited with its event set still open, whether it
\* returned or panicked.
C6_EventSetReleased ==
  Exited => /\ eventSet # "open"
            /\ eventSet = "none" => regResults = <<>> /\ ~waited

\* the second registration failed fatally: the panic has closed the event set
C6_Witness ==
  /\ pc = "panic"
  /\ eventSet = "closed"
  /\ Len(regResults) = 2
  /\ regResults[2].err = UnknownError

DisablingDirectives ==
  { <<"a", "l", "l">>, <<"A", "L", "L">>, <<"A", "l", "l">>,
    <<"x", "i", "d", "s">>, <<"X", "I", "D", "S">>, <<"x", "I", "d", "s">> }

\* C7: with the directive "all" or "xids" in any letter case checkHealth returns with
\* no event set opened, no device registered, no event waited for and nothing written,
\* whatever the devices and the stop signal.
C7_DisabledDoesNothing ==
  (disableHealthChecks \in DisablingDirectives /\ pc # "start") =>
    /\ pc = "done"
    /\ eventSet = "none"
    /\ regResults = <<>>
    /\ ~waited
    /\ sent = <<>>
    /\ unhealthy = <<>>

\* "ALL", three devices, the stop signal fired: returned, nothing done
C7_Witness ==
  /\ disableHealthChecks = <<"A", "L", "L">>
  /\ Len(devices) = 3
  /\ stop
  /\ pc = "done"
  /\ eventSet = "none"

\* the registration loop is running, or has just ended (by completion or by panic)
InRegistration ==
  \/ pc \in {"register", "regsend", "panic"}
  \/ pc = "loop" /\ ~waited /\ event.none

\* the devices whose registration so far reported "Not Supported", in order
ReportedNotSupported ==
  SelectSeq([k \in 1..Len(regResults) |-> [dev |-> devices[k], err |-> regResults[k].err]],
            LAMBDA r : r.err = NotSupported)

\* C8: in the registration loop exactly the devices whose registration reported "not
\* supported" are written, and the loop goes on; any other failure ends checkHealth
\* in a panic at once: no later device is registered and no event is waited for.
C8_RegistrationFailures ==
  /\ Len(regResults) <= Len(devices)
  /\ InRegistration =>
       [k \in 1..Len(ReportedNotSupported) |-> ReportedNotSupported[k].dev]
         = sent \o (IF pc = "regsend" THEN <<devices[idx]>> ELSE <<>>)
  /\ \A k \in 1..Len(regResults) :
       regResults[k].err \notin {Nil, NotSupported} =>
         k = Len(regResults) /\ pc = "panic" /\ ~waited
  /\ pc \in {"loop", "wait", "send"} => Len(regResults) = Len(devices)

\* the first and the third device were not supported and written, the second was
\* registered in between, and the loop has ended normally
C8_Witness ==
  /\ pc = "loop"
  /\ ~waited
  /\ Len(regResults) = 3
  /\ regResults[1].err = NotSupported
  /\ regResults[2].err = Nil
  /\ regResults[3].err = NotSupported
  /\ sent = <<devices[1], devices[3]>>

(***************************************************************************)
(* The codec: properties under SpecCodec.                                  *)
(***************************************************************************)
\* C9: decoding what generateFakeDeviceID made of a real identifier (a UUID string,
\* digits and hyphens included) and a non-negative index gives the real identifier
\* back.
C9_DecodeInvertsEncode == cpc = "decoded" => decoded = realID

\* an identifier with a hyphen and a digit, a two-digit index, and the round trip made
C9_Witness ==
  /\ cpc = "decoded"
  /\ realID = <<"G", "-", "7">>
  /\ fakeCounter = 12
  /\ fakeID = <<"G", "-", "7", "-", "_", "-", "1", "2">>
  /\ decoded = realID

(***************************************************************************)
(* Whole-device enumeration: properties under SpecEnum.                    *)
(***************************************************************************)
\* the devices of a returned list that decode to uuid, in order
DevicesOf(list, uuid) == SelectSeq(list, LAMBDA d : extractRealDeviceID(d.ID) = uuid)

SkippedInPass(a, skip) == a.MigEnabled /\ skip

\* the capacity baseline in force when accelerator k of hw is processed, the pass
\* having begun with gpuMemory = g: the first non-zero capacity seen so far
BaselineAt(g, hw, k) ==
  IF g # 0 THEN g
  ELSE IF \E j \in 1..k : hw[j].Memory # 0
  THEN hw[CHOOSE j \in 1..k : hw[j].Memory # 0 /\ \A m \in 1..(j - 1) : hw[m].Memory = 0].Memory
  ELSE 0

\* list is uuid's slices 0 .. n-1, in order
IsSliceRun(list, uuid, n) ==
  /\ Len(list) = n
  /\ \A j \in 1..n : list[j].ID = generateFakeDeviceID(uuid, j - 1)

\* C10 (as amended): a pass of GpuDeviceManager.Devices that returns emits, for every
\* accelerator it does not skip, exactly floor(B/100)*(100-R) devices with indices
\* 0 .. count-1, B being the capacity baseline gpuMemory in force when the accelerator
\* is processed (the first non-zero capacity the process has seen), in every pass.
C10_CountFromBaseline ==
  epc = "returned" =>
    \A k \in 1..Len(hardware) :
      ~SkippedInPass(hardware[k], skipMigEnabledGPUs) =>
        IsSliceRun(DevicesOf(devs, hardware[k].UUID), hardware[k].UUID,
                   (BaselineAt(memoryAtEntry, hardware, k) \div 100)
                     * (100 - Atoi(reservedEnv)))

\* a second pass over two accelerators of capacities 100 and 200, the baseline
\* latched at 200 by the first pass: 2 * (100 - 98) devices for each
C10_Witness ==
  /\ epc = "returned"
  /\ passes = 2
  /\ reservedEnv = <<"9", "8">>
  /\ Len(hardware) = 2
  /\ hardware[1].Memory = 100
  /\ hardware[2].Memory = 200
  /\ ~skipMigEnabledGPUs
  /\ gpuMemory = 200
  /\ Len(devs) = 8
  /\ devs[4].ID = generateFakeDeviceID(AcceleratorUUID(0), 3)

\* C10 as stated: the count of every accelerator not skipped is computed from that
\* accelerator's own capacity C.
C10_CountFromOwnCapacity ==
  epc = "returned" =>
    \A k \in 1..Len(hardware) :
      ~SkippedInPass(hardware[k], skipMigEnabledGPUs) =>
        Len(DevicesOf(devs, hardware[k].UUID))
          = (hardware[k].Memory \div 100) * (100 - Atoi(reservedEnv))

(***************************************************************************)
(* Both managers: properties under SpecManagers.                           *)
(***************************************************************************)
\* the partitions of accelerator k that the manager's resource matches
MatchingPartitions(k) ==
  Cardinality({ p \in 1..Len(partitions[k]) : partitions[k][p].Matches })

ReturnedBy(m) == manager = m /\ epc = "returned"

\* C11: a pass of MigDeviceManager.Devices that returns emits, for every matching
\* partition of every partition-enabled accelerator, B * (1 - R/100) devices
\* computed on fractions, B being the capacity baseline and R the reservation
\* percentage, so that fewer devices are emitted the larger R is.
C11_FractionalCount ==
  ReturnedBy("mig") =>
    \A k \in 1..Len(hardware) :
      hardware[k].MigEnabled =>
        Len(DevicesOf(devs, hardware[k].UUID))
          = MatchingPartitions(k)
              * ((BaselineAt(memoryAtEntry, hardware, k) * (100 - Atoi(reservedEnv))) \div 100)

\* the reservation percentage is an integer in (0, 100]
ReservationInRange == AtoiOk(reservedEnv) /\ Atoi(reservedEnv) > 0 /\ Atoi(reservedEnv) <= 100

\* accelerator k of the last pass is one the manager computes a device count for
CountedInPass(k) ==
  /\ hardware[k].Err = "none"
  /\ IF manager = "gpu" THEN ~SkippedInPass(hardware[k], skipMigEnabledGPUs)
     ELSE hardware[k].MigEnabled

\* C12 (as amended): with a reservation percentage outside (0, 100], a pass of either
\* manager that computes a device count for some accelerator ends in a panic; a pass
\* that returns has met no such accelerator and returns the empty list.
C12_InvalidFatalWhenCounted ==
  (manager # "none" /\ ~ReservationInRange) =>
    /\ (\E k \in 1..Len(hardware) : CountedInPass(k)) => epc = "panic"
    /\ epc = "returned" => devs = <<>>

\* a partitioned pass over a plain and a partition-enabled accelerator, both
\* answering every query, that panics on the reservation
C12_Witness ==
  /\ manager = "mig"
  /\ ~ReservationInRange
  /\ Len(hardware) = 2
  /\ ~hardware[1].MigEnabled
  /\ CountedInPass(2)
  /\ epc = "panic"

\* C12 as stated: with a reservation percentage outside (0, 100] no pass returns,
\* whatever the accelerators.
C12_InvalidNeverReturns == ~ReservationInRange => epc # "returned"

\* the accelerators of the last pass whose UUID is uuid
EnumeratedAs(uuid) == { k \in 1..Len(hardware) : hardware[k].UUID = uuid }

\* C13: every device of the list a pass of either manager returns decodes to the UUID
\* of exactly one accelerator enumerated in that pass, and has that accelerator's
\* device-node path.
C13_DecodesToEnumerated ==
  epc = "returned" =>
    \A j \in 1..Len(devs) :
      /\ Cardinality(EnumeratedAs(extractRealDeviceID(devs[j].ID))) = 1
      /\ \A k \in EnumeratedAs(extractRealDeviceID(devs[j].ID)) :
           devs[j].Path = hardware[k].Path

\* a second, partitioned pass returning devices of two accelerators
C13_Witness ==
  /\ ReturnedBy("mig")
  /\ passes = 2
  /\ Len(hardware) = 2
  /\ devs # <<>>
  /\ extractRealDeviceID(devs[1].ID) = hardware[1].UUID
  /\ extractRealDeviceID(devs[Len(devs)].ID) = hardware[2].UUID
  /\ devs[Len(devs)].Path = NodePath(1)

(***************************************************************************)
(* Enumeration beside a running monitor: properties under SpecServing.     *)
(***************************************************************************)
\* C14: every device of the list a pass of either manager returns has health Healthy,
\* in every pass, whatever the monitor has written to the unhealthy channel.
C14_ReturnedHealthy ==
  epc = "returned" => \A j \in 1..Len(devs) : devs[j].Health = Healthy

\* a second pass that began when the unhealthy channel held a device of accelerator 0
\* and returned devices of accelerator 0
C14_Witness ==
  /\ epc = "returned"
  /\ passes = 2
  /\ reportedAtEntry # <<>>
  /\ devs # <<>>
  /\ extractRealDeviceID(reportedAtEntry[1].ID) = hardware[1].UUID
  /\ extractRealDeviceID(devs[1].ID) = hardware[1].UUID

(***************************************************************************)
(* The order of the writes: properties under SpecOrder.                    *)
(***************************************************************************)
\* the devices of the input list that (e, err) makes checkHealth write, in the order
\* of the list
CausedBy(e) ==
  Only({ [k \in 1..Len(q) |-> devices[q[k]]] :
           q \in { SelectSeq(Indices(Len(devices)),
                             LAMBDA i : \E k \in 1..Len(a) : a[k] = i) :
                     a \in {affected(devices, e)} } })

\* the writes the deliveries evs from the n-th on call for
RECURSIVE WritesFor(_, _)
WritesFor(evs, n) ==
  IF n > Len(evs) THEN <<>>
  ELSE Only({ [k \in 1..Len(c) |-> [event |-> n, device |-> c[k]]] :
                c \in {CausedBy(evs[n])} })
         \o WritesFor(evs, n + 1)

\* C15: the writes of the loop are those of the first delivery, then those of the
\* second, and so on, each delivery's writes being one per affected device in the
\* order of the input list; when WaitForEvent is next called none is missing; and
\* the channel holds the latest of them in that order.
C15_InArrivalOrder ==
  /\ \A due \in {WritesFor(delivered, 1)} :
       /\ Len(written) <= Len(due)
       /\ written = SubSeq(due, 1, Len(written))
       /\ pc \in {"loop", "wait", "done"} => written = due
  /\ Len(unhealthy) <= Len(written)
  /\ \A k \in 1..Len(unhealthy) :
       unhealthy[k] = written[Len(written) - Len(unhealthy) + k].device

\* two deliveries on a list of three devices, the first naming accelerator 0 and the
\* second no accelerator: two writes for the first, then three for the second
C15_Witness ==
  /\ Len(devices) = 3
  /\ Len(delivered) = 2
  /\ delivered[1].UUID = GpuX
  /\ delivered[2].UUID = Nil
  /\ Len(written) = 5
  /\ written[2].event = 1
  /\ written[3].event = 2
  /\ written[5].device = devices[3]

(***************************************************************************)
(* The health monitor after registration: properties under Spec.           *)
(***************************************************************************)
\* the registration loop is over and RegisterEventForDevice returned "Not Supported"
\* for every device of a non-empty list
AllNotSupported ==
  /\ devices # <<>>
  /\ Len(regResults) = Len(devices)
  /\ \A k \in 1..Len(regResults) : regResults[k].err = NotSupported
  /\ pc \notin {"register", "regsend"}

\* C16 (as amended): when every device fails registration with "Not Supported",
\* checkHealth still enters the loop of WaitForEvent calls and returns only once
\* the stop channel is closed.
C16_WaitsUntilStopped ==
  AllNotSupported =>
    /\ pc \in {"loop", "wait", "send", "done"}
    /\ pc = "done" => stop

\* every registration failed with "Not Supported", stop has not fired, and
\* WaitForEvent has been called
C16_Witness ==
  /\ AllNotSupported
  /\ Len(devices) = 3
  /\ ~stop
  /\ waited
  /\ pc = "wait"

\* C16 as stated: when every device fails registration with "Not Supported",
\* checkHealth has returned once the registration loop is over, and WaitForEvent
\* is never called.
C16_ReturnsAfterRegistration == AllNotSupported => (pc = "done" /\ ~waited)

(***************************************************************************)
(* The capacity baseline: properties under SpecManagers.                   *)
(***************************************************************************)
\* the accelerators of the last pass that got as far as the latch
Latching == { k \in 1..Len(hardware) : hardware[k].Err # "NewDevice" }

\* the accelerators of the last pass that met gpuMemory = 0: those up to the first
\* of non-zero capacity, that one included
MetUnset ==
  { k \in Latching : \A j \in 1..(k - 1) : hardware[j].Memory = 0 }

\* C17 (as amended): gpuMemory, once non-zero, is never written again by any
\* accelerator or pass of either manager; while it is 0 every accelerator that gets
\* to the latch writes its capacity (all of them, in a pass that returns), so
\* gpuMemory is the first non-zero capacity reported and an accelerator reporting 0
\* leaves it to be written again.
C17_LatchedAtFirstNonZero ==
  manager # "none" =>
    /\ memoryAtEntry # 0 => (gpuMemory = memoryAtEntry /\ memoryWriters = <<>>)
    /\ memoryAtEntry = 0 =>
         /\ epc = "returned" => Len(memoryWriters) = Cardinality(MetUnset)
         /\ \A k \in 1..Len(memoryWriters) : memoryWriters[k] = k /\ k \in MetUnset
         /\ gpuMemory = IF memoryWriters = <<>> THEN 0
                        ELSE hardware[memoryWriters[Len(memoryWriters)]].Memory

\* a second pass that found gpuMemory still 0 after a first accelerator of
\* capacity 0, and wrote it twice
C17_Witness ==
  /\ passes = 2
  /\ memoryAtEntry = 0
  /\ Len(hardware) = 2
  /\ hardware[1].Memory = 0
  /\ memoryWriters = <<1, 2>>
  /\ gpuMemory = 100

\* C17 as stated: gpuMemory is written at most once, by the first accelerator of the
\* first pass, whatever the capacities.
C17_WrittenOnce ==
  /\ memoryWriters \in {<<>>, <<1>>}
  /\ passes > 1 => memoryWriters = <<>>

(***************************************************************************)
(* What each mode leaves out: properties under SpecManagers.               *)
(***************************************************************************)
\* the count MigDeviceManager.Devices emits for one matching partition of
\* accelerator k: the baseline, or nothing when all of it is reserved
PerPartitionCount(k) ==
  BaselineAt(memoryAtEntry, hardware, k) * (1 - (Atoi(reservedEnv) \div 100))

\* C18: a pass that returns holds no device of a partition-enabled accelerator in
\* whole-device mode with skipMigEnabledGPUs set, no device of an accelerator without
\* partitioning in partitioned mode, and in partitioned mode, for a partition-enabled
\* accelerator, the per-partition count once for every partition the resource
\* matches and nothing for the others.
C18_ModeFiltering ==
  epc = "returned" =>
    \A k \in 1..Len(hardware) :
      /\ (manager = "gpu" /\ skipMigEnabledGPUs /\ hardware[k].MigEnabled)
           => DevicesOf(devs, hardware[k].UUID) = <<>>
      /\ (manager = "mig" /\ ~hardware[k].MigEnabled)
           => DevicesOf(devs, hardware[k].UUID) = <<>>
      /\ (manager = "mig" /\ hardware[k].MigEnabled)
           => Len(DevicesOf(devs, hardware[k].UUID))
                = MatchingPartitions(k) * PerPartitionCount(k)

\* a partitioned pass over an accelerator without partitioning and one with two
\* partitions of which one matches: the devices of that one partition alone
C18_Witness ==
  /\ ReturnedBy("mig")
  /\ Len(hardware) = 2
  /\ ~hardware[1].MigEnabled
  /\ hardware[2].MigEnabled
  /\ Len(partitions[2]) = 2
  /\ MatchingPartitions(2) = 1
  /\ gpuMemory = 100
  /\ Len(devs) = 100
  /\ extractRealDeviceID(devs[1].ID) = hardware[2].UUID

(***************************************************************************)
(* The devices argument of checkHealth: properties under Spec.             *)
(***************************************************************************)
\* every value in the unhealthy channel, and every value written in the current
\* phase, is a device of the input list
WrittenFromInput ==
  /\ \A k \in 1..Len(unhealthy) : \E i \in 1..Len(devices) : devices[i] = unhealthy[k]
  /\ \A k \in 1..Len(sent) : \E i \in 1..Len(devices) : devices[i] = sent[k]

\* C19: no step of checkHealth changes the identifier, health or path of a device of
\* its input list, and every value it writes to the unhealthy channel is a device of
\* that list.
C19_DevicesUntouched == [][devices' = devices]_vars /\ []WrittenFromInput

\* a device was written for a failed registration and another for an event, and
\* both are in the channel's history
C19_Witness ==
  /\ Len(devices) = 3
  /\ \E k \in 1..Len(regResults) : regResults[k].err = NotSupported
  /\ ~event.none
  /\ sent # <<>>
  /\ unhealthy # <<>>
  /\ \A i \in 1..Len(devices) : devices[i].Health = Healthy

(***************************************************************************)
(* Fake identifiers within one list: properties under SpecManagers.        *)
(***************************************************************************)
\* C20: the fake identifiers of the list a pass of either manager returns are
\* pairwise distinct (the accelerators of a pass have distinct UUIDs), also when
\* several partitions of one accelerator match the resource.
C20_DistinctFakeIDs ==
  epc = "returned" => Cardinality({ devs[j].ID : j \in 1..Len(devs) }) = Len(devs)

====
